---------------------------- MODULE Spec2Model ----------------------------
(***************************************************************************)
(* Model of app.py, the complaints dashboard: load_df (column-name         *)
(* normalisation, date parsing, core columns, text clean-up) and the       *)
(* script body that is re-executed on every widget interaction (filters,   *)
(* derived columns, grouped summaries, highlighted categories, table and   *)
(* export).                                                                *)
(*                                                                         *)
(* Text is a sequence of characters.  An ASCII character is the one-       *)
(* character string; any other character is the string "U+xxxx" of its     *)
(* code point (U+00F3 is o with acute, U+0301 the combining acute accent,  *)
(* U+2122 the trade mark sign).                                            *)
(***************************************************************************)
EXTENDS Integers, Sequences, FiniteSets, TLC

VARIABLES
    pc,      \* "idle": nothing ran; "ran": the script ran; "norm0".."norm2": column-name harness
    raw,     \* what pd.read_excel returned: [cols, rows]
    df,      \* the canonical record set load_df returned (cached by st.cache_data)
    sel,     \* st.session_state: aerolinea_sel, categoria_sel, rango, top_n
    df_f,    \* the derived view of the last run
    out,     \* what the last run displayed: summaries, table, export, raised error
    name,    \* a column label
    once,    \* _normalize_colname(name)
    twice    \* _normalize_colname(once)

vars == <<pc, raw, df, sel, df_f, out, name, once, twice>>

-----------------------------------------------------------------------------
(* Bounds of the model *)

MaxRows == 2

MaxLabelLen == 2

-----------------------------------------------------------------------------
(* Characters *)

Lowers == <<"a","b","c","d","e","f","g","h","i","j","k","l","m",
            "n","o","p","q","r","s","t","u","v","w","x","y","z">>

Uppers == <<"A","B","C","D","E","F","G","H","I","J","K","L","M",
            "N","O","P","Q","R","S","T","U","V","W","X","Y","Z">>

Digits == <<"0","1","2","3","4","5","6","7","8","9">>

Range(s) == {s[i] : i \in 1..Len(s)}

IndexOf(s, c) == CHOOSE i \in 1..Len(s) : s[i] = c

\* the code points of the characters that are neither letters nor digits
other_code_points ==
    (" " :> 32) @@ ("-" :> 45) @@ ("." :> 46) @@ ("/" :> 47) @@ ("_" :> 95) @@
    ("U+00C9" :> 201) @@ ("U+00CD" :> 205) @@ ("U+00E1" :> 225) @@
    ("U+00E9" :> 233) @@ ("U+00ED" :> 237) @@ ("U+00F1" :> 241) @@
    ("U+00F3" :> 243) @@ ("U+0301" :> 769) @@ ("U+0303" :> 771) @@
    ("U+2122" :> 8482)

code_points ==
    [c \in Range(Lowers) |-> 96 + IndexOf(Lowers, c)] @@
    [c \in Range(Uppers) |-> 64 + IndexOf(Uppers, c)] @@
    [c \in Range(Digits) |-> 47 + IndexOf(Digits, c)] @@
    other_code_points

\* ord(ch): the code point
ord(c) == code_points[c]

lower_case ==
    [c \in Range(Uppers) |-> Lowers[IndexOf(Uppers, c)]] @@
    ("U+00C9" :> "U+00E9") @@ ("U+00CD" :> "U+00ED")

\* str.lower() on one character
lower_ch(c) == IF c \in DOMAIN lower_case THEN lower_case[c] ELSE c

lower(s) == [i \in 1..Len(s) |-> lower_ch(s[i])]

\* str.isspace() on one character
isspace(c) == c = " "

alphanumerics ==
    Range(Lowers) \cup Range(Uppers) \cup Range(Digits)
    \cup {"U+00C9", "U+00CD", "U+00E1", "U+00E9", "U+00ED", "U+00F1", "U+00F3"}

\* str.isalnum() on one character: letters and digits, not marks, symbols or separators
isalnum(c) == c \in alphanumerics

\* unicodedata.combining(ch) # 0
combining(c) == c \in {"U+0301", "U+0303"}

\* unicodedata.normalize("NFKD", ch): the compatibility decomposition of one character
nfkd_ch(c) ==
    CASE c = "U+00C9" -> <<"E", "U+0301">>
      [] c = "U+00CD" -> <<"I", "U+0301">>
      [] c = "U+00E1" -> <<"a", "U+0301">>
      [] c = "U+00E9" -> <<"e", "U+0301">>
      [] c = "U+00ED" -> <<"i", "U+0301">>
      [] c = "U+00F1" -> <<"n", "U+0303">>
      [] c = "U+00F3" -> <<"o", "U+0301">>
      [] c = "U+2122" -> <<"T", "M">>
      [] OTHER -> <<c>>

RECURSIVE nfkd(_)
nfkd(s) == IF s = <<>> THEN <<>> ELSE nfkd_ch(Head(s)) \o nfkd(Tail(s))

RECURSIVE lstrip(_)
lstrip(s) == IF s # <<>> /\ isspace(Head(s)) THEN lstrip(Tail(s)) ELSE s

RECURSIVE rstrip(_)
rstrip(s) ==
    IF s # <<>> /\ isspace(s[Len(s)]) THEN rstrip(SubSeq(s, 1, Len(s) - 1)) ELSE s

\* str.strip()
strip(s) == rstrip(lstrip(s))

\* x in s, for strings
contains(s, x) ==
    \E i \in 1..(Len(s) - Len(x) + 1) : SubSeq(s, i, i + Len(x) - 1) = x

\* s < t, for strings: by code point, a proper prefix first
RECURSIVE str_lt(_, _)
str_lt(s, t) ==
    IF t = <<>> THEN FALSE
    ELSE IF s = <<>> THEN TRUE
    ELSE IF Head(s) = Head(t) THEN str_lt(Tail(s), Tail(t))
    ELSE ord(Head(s)) < ord(Head(t))

-----------------------------------------------------------------------------
(* Text and column-name normalisation *)

_normalize_text(s) ==
    LET s1 == lower(strip(s))
        s2 == nfkd(s1)
    IN  SelectSeq(s2, LAMBDA ch : ~combining(ch))

\* "".join(ch if ch.isalnum() else "_" for ch in s)
underscored(s) == [i \in 1..Len(s) |-> IF isalnum(s[i]) THEN s[i] ELSE "_"]

\* "_".join(filter(None, s.split("_")))
RECURSIVE collapse(_)
collapse(s) ==
    IF s = <<>> THEN <<>>
    ELSE IF Head(s) = "_" THEN
        LET r == collapse(Tail(s))
        IN  IF r = <<>> \/ Len(s) = 1 \/ s[2] = "_" THEN r ELSE <<"_">> \o r
    ELSE <<Head(s)>> \o collapse(Tail(s))

join_parts(s) ==
    LET r == collapse(s)
    IN  IF r # <<>> /\ Head(r) = "_" THEN Tail(r) ELSE r

synonyms ==
    (<<"a","e","r","o","l","i","n","e","a">> :> <<"a","e","r","o","l","i","n","e","a">>) @@
    (<<"a","e","r","o","l","i","n","e","a","s">> :> <<"a","e","r","o","l","i","n","e","a">>) @@
    (<<"a","e","r","o","l","i","n","e","a","_","n","o","m","b","r","e">> :> <<"a","e","r","o","l","i","n","e","a">>) @@
    (<<"c","a","t","e","g","o","r","i","a">> :> <<"c","a","t","e","g","o","r","i","a">>) @@
    (<<"c","a","t","e","g","o","r","i","a","s">> :> <<"c","a","t","e","g","o","r","i","a">>) @@
    (<<"o","r","i","g","e","n">> :> <<"o","r","i","g","e","n">>) @@
    (<<"d","e","s","t","i","n","o">> :> <<"d","e","s","t","i","n","o">>) @@
    (<<"f","e","c","h","a">> :> <<"f","e","c","h","a">>) @@
    (<<"t","i","t","u","l","o">> :> <<"t","i","t","u","l","o">>) @@
    (<<"u","r","l">> :> <<"u","r","l">>) @@
    (<<"n","i","d">> :> <<"n","i","d">>) @@
    (<<"t","r","a","m","o">> :> <<"t","r","a","m","o">>) @@
    (<<"t","i","p","o","_","t","r","a","m","o">> :> <<"t","r","a","m","o">>) @@
    (<<"n","a","c","i","o","n","a","l","_","i","n","t","e","r","n","a","c","i","o","n","a","l">> :> <<"t","r","a","m","o">>) @@
    (<<"i","n","t","e","r","n","a","c","i","o","n","a","l">> :> <<"i","n","t","e","r","n","a","c","i","o","n","a","l">>) @@
    (<<"e","s","_","i","n","t","e","r","n","a","c","i","o","n","a","l">> :> <<"i","n","t","e","r","n","a","c","i","o","n","a","l">>)

_normalize_colname(n) ==
    LET s == join_parts(underscored(_normalize_text(n)))
    IN  IF s \in DOMAIN synonyms THEN synonyms[s] ELSE s

-----------------------------------------------------------------------------
(* Cell values of a DataFrame *)

NaN == [k |-> "nan"]

NaT == [k |-> "nat"]

Txt(s) == [k |-> "str", s |-> s]

Num(n) == [k |-> "int", n |-> n]

\* the float n.0
Flt(n) == [k |-> "float", n |-> n]

Bool(b) == [k |-> "bool", b |-> b]

\* a Timestamp: the day is date.toordinal(), the hour is the time of day
Ts(d, h) == [k |-> "ts", day |-> d, hour |-> h]

\* a monthly Period
Period(y, m) == [k |-> "period", y |-> y, m |-> m]

\* pd.isna(x)
isna(x) == x.k \in {"nan", "nat"}

RECURSIVE digits(_)
digits(n) ==
    IF n < 10 THEN <<Digits[n + 1]>>
    ELSE digits(n \div 10) \o <<Digits[(n % 10) + 1]>>

\* str(x)
str(x) ==
    CASE x.k = "str" -> x.s
      [] x.k = "int" -> digits(x.n)
      [] x.k = "float" -> digits(x.n) \o <<".","0">>
      [] x.k = "bool" -> IF x.b THEN <<"T","r","u","e">> ELSE <<"F","a","l","s","e">>
      [] x.k = "nan" -> <<"n","a","n">>
      [] x.k = "nat" -> <<"N","a","T">>

\* row[c], NaN where the row has no such column
get(r, c) == IF c \in DOMAIN r THEN r[c] ELSE NaN

\* Series.notna().any()
notna_any(rows, c) == \E i \in 1..Len(rows) : ~isna(get(rows[i], c))

-----------------------------------------------------------------------------
(* load_df *)

\* variant: nid left out of the list of expected columns
core_added_without_nid ==
    {<<"c","a","t","e","g","o","r","i","a">>, <<"a","e","r","o","l","i","n","e","a">>, <<"o","r","i","g","e","n">>, <<"d","e","s","t","i","n","o">>, <<"t","i","t","u","l","o">>, <<"u","r","l">>}

core_added == {<<"c","a","t","e","g","o","r","i","a">>, <<"a","e","r","o","l","i","n","e","a">>, <<"o","r","i","g","e","n">>, <<"d","e","s","t","i","n","o">>, <<"t","i","t","u","l","o">>, <<"u","r","l">>, <<"n","i","d">>}

text_cleaned == {<<"c","a","t","e","g","o","r","i","a">>, <<"a","e","r","o","l","i","n","e","a">>, <<"o","r","i","g","e","n">>, <<"d","e","s","t","i","n","o">>}

categorical == {<<"c","a","t","e","g","o","r","i","a">>, <<"a","e","r","o","l","i","n","e","a">>}

\* pd.to_datetime(errors="coerce") on one cell: a date cell is kept, an empty
\* cell or a text that is no date becomes NaT
to_datetime(x) == IF x.k = "ts" THEN x ELSE NaT

\* df.columns = [_normalize_colname(c) for c in df.columns]
rename_columns(sheet) ==
    LET cols == {_normalize_colname(c) : c \in sheet.cols}
        label(n) == CHOOSE c \in sheet.cols : _normalize_colname(c) = n
    IN  [cols |-> cols,
         rows |-> [i \in 1..Len(sheet.rows) |-> [n \in cols |-> sheet.rows[i][label(n)]]]]

\* df["fecha"] = pd.to_datetime(df["fecha"], errors="coerce"), if the column exists
parse_fecha(d) ==
    IF <<"f","e","c","h","a">> \in d.cols
    THEN [d EXCEPT !.rows = [i \in 1..Len(d.rows) |->
              [d.rows[i] EXCEPT ![<<"f","e","c","h","a">>] = to_datetime(@)]]]
    ELSE d

\* for col in [...]: if col not in df.columns: df[col] = np.nan
add_missing_columns(d) ==
    LET cols == d.cols \cup core_added
    IN  [cols |-> cols,
         rows |-> [i \in 1..Len(d.rows) |-> [c \in cols |-> get(d.rows[i], c)]]]

\* .astype(str).replace({"nan": np.nan}).map(lambda x: x.strip() if isinstance(x, str) else x)
clean_text(x) ==
    LET s == str(x)
    IN  IF s = <<"n","a","n">> THEN NaN ELSE Txt(strip(s))

clean_columns(d) ==
    [d EXCEPT !.rows = [i \in 1..Len(d.rows) |->
        [c \in d.cols |-> IF c \in text_cleaned THEN clean_text(d.rows[i][c])
                          ELSE d.rows[i][c]]]]

\* df[c].astype("category"): the categories are the distinct values that are not missing
categories_of(d) ==
    [c \in categorical |-> {d.rows[i][c] : i \in 1..Len(d.rows)} \ {NaN}]

load_df(sheet) ==
    LET d == clean_columns(add_missing_columns(parse_fecha(rename_columns(sheet))))
    IN  [cols |-> d.cols, rows |-> d.rows, categories |-> categories_of(d)]

-----------------------------------------------------------------------------
(* The script body: widgets and filters *)

\* 2024-01-05 (a Friday) and 2024-01-20 (a Saturday), as date.toordinal()
Days == {738890, 738905}

Min(S) == CHOOSE x \in S : \A y \in S : x <= y

Max(S) == CHOOSE x \in S : \A y \in S : x >= y

\* df[c].dropna().unique(): the options of a multiselect
options(d, c) == {d.rows[i][c] : i \in 1..Len(d.rows)} \ {NaN}

\* the value of a widget whose key is not in st.session_state
unset == [set |-> FALSE]

chosen(v) == [set |-> TRUE, v |-> v]

top_n_default == 15

top_n_min == 5

widget(state, default) == IF state.set THEN state.v ELSE default

\* the days of the rows whose fecha is not NaT
valid_days(d) ==
    {d.rows[i][<<"f","e","c","h","a">>].day : i \in {j \in 1..Len(d.rows) : ~isna(d.rows[j][<<"f","e","c","h","a">>])}}

None == [none |-> TRUE]

Tuple(t) == [none |-> FALSE, t |-> t]

\* variant: the date_input is shown whatever the columns are, today's date its default
rango_widget_always(d, s) ==
    IF <<"f","e","c","h","a">> \in d.cols /\ valid_days(d) # {}
    THEN Tuple(widget(s.rango, <<Min(valid_days(d)), Max(valid_days(d))>>))
    ELSE Tuple(widget(s.rango, <<Max(Days), Max(Days)>>))

\* rango: the date_input over (min, max) of fecha, or None without a fecha column
\* or without any valid date
rango_widget(d, s) ==
    IF <<"f","e","c","h","a">> \in d.cols /\ valid_days(d) # {}
    THEN Tuple(widget(s.rango, <<Min(valid_days(d)), Max(valid_days(d))>>))
    ELSE None

\* Series.isin(values) on one cell
isin(x, values) == x \in values

\* variant: the timestamps are compared, not their dates, so the last day ends at midnight
in_rango_timestamps(x, lo, hi) ==
    ~isna(x) /\ x.day * 24 + x.hour >= lo * 24 /\ x.day * 24 + x.hour <= hi * 24

\* (fecha.dt.date >= rango[0]) & (fecha.dt.date <= rango[1]) on one cell: .dt.date
\* drops the time of day, and a comparison with NaT is False
in_rango(x, lo, hi) == ~isna(x) /\ x.day >= lo /\ x.day <= hi

\* if rango and len(rango) == 2
rango_active(r) == ~r.none /\ r.t # <<>> /\ Len(r.t) = 2

\* the index of df_f after the three filters
filtered_index(d, s, r) ==
    LET i0 == [i \in 1..Len(d.rows) |-> i]
        aerolinea_sel == s.aerolinea_sel
        categoria_sel == s.categoria_sel
        i1 == IF aerolinea_sel # {}
              THEN SelectSeq(i0, LAMBDA i : isin(get(d.rows[i], <<"a","e","r","o","l","i","n","e","a">>), aerolinea_sel))
              ELSE i0
        i2 == IF categoria_sel # {}
              THEN SelectSeq(i1, LAMBDA i : isin(get(d.rows[i], <<"c","a","t","e","g","o","r","i","a">>), categoria_sel))
              ELSE i1
    IN  IF rango_active(r)
        THEN SelectSeq(i2, LAMBDA i : in_rango(get(d.rows[i], <<"f","e","c","h","a">>), r.t[1], r.t[2]))
        ELSE i2

-----------------------------------------------------------------------------
(* The script body: derived columns *)

_to_bool_internacional(x) ==
    IF isna(x) THEN NaN
    ELSE LET sx == lower(strip(str(x)))
         IN  IF sx \in {<<"1">>, <<"t","r","u","e">>, <<"t">>, <<"s","i">>, <<"s","U+00ED">>, <<"i","n","t","e","r","n","a","c","i","o","n","a","l">>, <<"i","n","t">>}
             THEN Bool(TRUE)
             ELSE IF sx \in {<<"0">>, <<"f","a","l","s","e">>, <<"f">>, <<"n","o">>, <<"n","a","c","i","o","n","a","l">>, <<"n","a","c">>}
             THEN Bool(FALSE)
             ELSE NaN

\* Series.map({True: "Internacional", False: "Nacional"}) on one cell
flag_of_bool(b) ==
    IF b = Bool(TRUE) THEN Txt(<<"I","n","t","e","r","n","a","c","i","o","n","a","l">>)
    ELSE IF b = Bool(FALSE) THEN Txt(<<"N","a","c","i","o","n","a","l">>)
    ELSE NaN

_to_flag_from_tramo(x) ==
    IF isna(x) THEN NaN
    ELSE LET sx == lower(strip(str(x)))
         IN  IF contains(sx, <<"i","n","t","e","r","n","a","c","i","o","n","a","l">>) \/ sx \in {<<"i","n","t","e","r">>, <<"i","n","t">>}
             THEN Txt(<<"I","n","t","e","r","n","a","c","i","o","n","a","l">>)
             ELSE IF contains(sx, <<"n","a","c","i","o","n","a","l">>) \/ sx \in {<<"n","a","c">>, <<"n","a","c","i","o","n","a","l">>}
             THEN Txt(<<"N","a","c","i","o","n","a","l">>)
             ELSE NaN

\* variant: "tramo" before "internacional"
flag_source_tramo_first(cols) ==
    IF <<"t","r","a","m","o">> \in cols THEN <<"t","r","a","m","o">>
    ELSE IF <<"i","n","t","e","r","n","a","c","i","o","n","a","l">> \in cols THEN <<"i","n","t","e","r","n","a","c","i","o","n","a","l">>
    ELSE <<>>

\* the column the flag is derived from: "internacional" before "tramo"
flag_source(cols) ==
    IF <<"i","n","t","e","r","n","a","c","i","o","n","a","l">> \in cols THEN <<"i","n","t","e","r","n","a","c","i","o","n","a","l">>
    ELSE IF <<"t","r","a","m","o">> \in cols THEN <<"t","r","a","m","o">>
    ELSE <<>>

\* the columns the flag derivation assigns to one row
flag_columns(r, cols) ==
    IF flag_source(cols) = <<"i","n","t","e","r","n","a","c","i","o","n","a","l">>
    THEN LET b == _to_bool_internacional(r[<<"i","n","t","e","r","n","a","c","i","o","n","a","l">>])
         IN  (<<"_","i","n","t","e","r","n","a","c","i","o","n","a","l","_","b","o","o","l">> :> b) @@ (<<"i","n","t","e","r","n","a","c","i","o","n","a","l","_","f","l","a","g">> :> flag_of_bool(b))
    ELSE IF flag_source(cols) = <<"t","r","a","m","o">>
    THEN (<<"i","n","t","e","r","n","a","c","i","o","n","a","l","_","f","l","a","g">> :> _to_flag_from_tramo(r[<<"t","r","a","m","o">>]))
    ELSE <<>>

\* Series.dt.day_name() on one cell
day_name(x) ==
    IF isna(x) THEN NaN
    ELSE Txt(<<<<"M","o","n","d","a","y">>, <<"T","u","e","s","d","a","y">>, <<"W","e","d","n","e","s","d","a","y">>, <<"T","h","u","r","s","d","a","y">>,
               <<"F","r","i","d","a","y">>, <<"S","a","t","u","r","d","a","y">>, <<"S","u","n","d","a","y">>>>[((x.day + 6) % 7) + 1])

dow_map ==
    (<<"M","o","n","d","a","y">> :> <<"L","u","n","e","s">>) @@ (<<"T","u","e","s","d","a","y">> :> <<"M","a","r","t","e","s">>) @@
    (<<"W","e","d","n","e","s","d","a","y">> :> <<"M","i","U+00E9","r","c","o","l","e","s">>) @@ (<<"T","h","u","r","s","d","a","y">> :> <<"J","u","e","v","e","s">>) @@
    (<<"F","r","i","d","a","y">> :> <<"V","i","e","r","n","e","s">>) @@ (<<"S","a","t","u","r","d","a","y">> :> <<"S","U+00E1","b","a","d","o">>) @@
    (<<"S","u","n","d","a","y">> :> <<"D","o","m","i","n","g","o">>)

\* Series.map(dow_map) on one cell
dia_semana(x) ==
    LET e == day_name(x)
    IN  IF ~isna(e) /\ e.s \in DOMAIN dow_map THEN Txt(dow_map[e.s]) ELSE NaN

\* Series.dt.to_period("M") on one cell, for the days of 2024 (738886 is 2024-01-01)
to_period_M(x) ==
    LET ends == <<31, 60, 91, 121, 152, 182, 213, 244, 274, 305, 335, 366>>
    IN  IF isna(x) THEN NaT
        ELSE Period(2024, 1 + Cardinality({m \in 1..12 : ends[m] <= x.day - 738886}))

\* the columns the date derivation assigns to one row, when fecha is a date column
date_columns(r, cols) ==
    IF <<"f","e","c","h","a">> \in cols
    THEN (<<"d","i","a","_","s","e","m","a","n","a">> :> dia_semana(r[<<"f","e","c","h","a">>])) @@ (<<"a","n","i","o","_","m","e","s">> :> to_period_M(r[<<"f","e","c","h","a">>]))
    ELSE <<>>

\* df_f after the filters and the derivations; an assignment replaces a column
\* of the same name
derive(d, index) ==
    LET row(i) == LET r == d.rows[index[i]]
                  IN  date_columns(r, d.cols) @@ flag_columns(r, d.cols) @@ r
        rows == [i \in 1..Len(index) |-> row(i)]
        added == (IF flag_source(d.cols) = <<"i","n","t","e","r","n","a","c","i","o","n","a","l">>
                  THEN {<<"_","i","n","t","e","r","n","a","c","i","o","n","a","l","_","b","o","o","l">>, <<"i","n","t","e","r","n","a","c","i","o","n","a","l","_","f","l","a","g">>}
                  ELSE IF flag_source(d.cols) = <<"t","r","a","m","o">> THEN {<<"i","n","t","e","r","n","a","c","i","o","n","a","l","_","f","l","a","g">>}
                  ELSE {})
                 \cup (IF <<"f","e","c","h","a">> \in d.cols THEN {<<"d","i","a","_","s","e","m","a","n","a">>, <<"a","n","i","o","_","m","e","s">>} ELSE {})
    IN  [cols |-> d.cols \cup added, rows |-> rows, index |-> index,
         categories |-> d.categories]

-----------------------------------------------------------------------------
(* The script body: grouped summaries *)

\* the order of group keys: texts by code point, periods by year and month
key_lt(a, b) ==
    IF a.k = "period" THEN a.y < b.y \/ (a.y = b.y /\ a.m < b.m)
    ELSE str_lt(a.s, b.s)

RECURSIVE sorted(_)
sorted(K) ==
    IF K = {} THEN <<>>
    ELSE LET m == CHOOSE x \in K : \A y \in K \ {x} : key_lt(x, y)
         IN  <<m>> \o sorted(K \ {m})

\* the group keys of groupby(c): every category of a categorical column, seen in
\* the view or not (observed=False), the values present otherwise; never a missing value
group_keys(v, c) ==
    IF c \in categorical THEN v.categories[c]
    ELSE {x \in {get(v.rows[i], c) : i \in 1..Len(v.rows)} : ~isna(x)}

\* variant: one per key that occurs (nunique of the key) instead of the group's size
groupby_nunique(v, c) ==
    LET ks == sorted(group_keys(v, c))
    IN  [j \in 1..Len(ks) |->
            [key |-> ks[j],
             reclamos |-> IF \E i \in 1..Len(v.rows) : get(v.rows[i], c) = ks[j]
                          THEN 1 ELSE 0]]

\* df_f.groupby(c).size().reset_index(name="reclamos"): one row per key, in key order
groupby_size(v, c) ==
    LET ks == sorted(group_keys(v, c))
    IN  [j \in 1..Len(ks) |->
            [key |-> ks[j],
             reclamos |-> Cardinality({i \in 1..Len(v.rows) : get(v.rows[i], c) = ks[j]})]]

\* t without its j-th row
without(t, j) == SubSeq(t, 1, j - 1) \o SubSeq(t, j + 1, Len(t))

\* .sort_values("reclamos", ascending=False): equal counts keep their order
RECURSIVE sort_values_desc(_)
sort_values_desc(t) ==
    IF t = <<>> THEN <<>>
    ELSE LET mx == Max({t[i].reclamos : i \in 1..Len(t)})
             j == Min({i \in 1..Len(t) : t[i].reclamos = mx})
         IN  <<t[j]>> \o sort_values_desc(without(t, j))

\* .head(n)
head(t, n) == SubSeq(t, 1, IF n < Len(t) THEN n ELSE Len(t))

absent == [shown |-> FALSE]

shown(t) == [shown |-> TRUE, rows |-> t]

\* "Reclamos por categoria" / "Reclamos por aerolinea"
counts_desc(v, c) ==
    IF notna_any(v.rows, c) THEN shown(sort_values_desc(groupby_size(v, c))) ELSE absent

\* "Reclamos por dia de la semana"
dow_counts(v) ==
    IF <<"d","i","a","_","s","e","m","a","n","a">> \in v.cols THEN shown(groupby_size(v, <<"d","i","a","_","s","e","m","a","n","a">>)) ELSE absent

\* "Reclamos: Nacional vs Internacional"
flag_counts(v, d) ==
    IF flag_source(d.cols) # <<>> /\ notna_any(v.rows, <<"i","n","t","e","r","n","a","c","i","o","n","a","l","_","f","l","a","g">>)
    THEN shown(sort_values_desc(groupby_size(v, <<"i","n","t","e","r","n","a","c","i","o","n","a","l","_","f","l","a","g">>)))
    ELSE absent

\* "Top destinos" / "Top origenes"
top_counts(v, c, n) ==
    IF c \in v.cols /\ notna_any(v.rows, c)
    THEN shown(head(sort_values_desc(groupby_size(v, c)), n))
    ELSE absent

\* strftime("%Y-%m") of a period
anio_mes_str(p) ==
    digits(p.y) \o <<"-">> \o (IF p.m < 10 THEN <<"0">> ELSE <<>>) \o digits(p.m)

\* "Reclamos por mes": ascending by month
serie(v) ==
    IF <<"a","n","i","o","_","m","e","s">> \in v.cols
    THEN LET g == groupby_size(v, <<"a","n","i","o","_","m","e","s">>)
         IN  shown([j \in 1..Len(g) |->
                 [key |-> g[j].key, reclamos |-> g[j].reclamos,
                  anio_mes_str |-> anio_mes_str(g[j].key)]])
    ELSE absent

-----------------------------------------------------------------------------
(* The script body: highlighted categories *)

important_colors ==
    (<<"c","a","n","c","e","l","a","c","i","o","n">> :> "#FF6B6B") @@ (<<"o","v","e","r","b","o","o","k","i","n","g">> :> "#4ECDC4") @@
    (<<"r","e","t","r","a","s","o">> :> "#45B7D1") @@ (<<"p","e","r","d","i","d","a"," ","o"," ","d","a","n","o"," ","d","e"," ","m","a","l","e","t","a">> :> "#96CEB4")

default_color == "#E0E0E0"

get_custom_colors(categories) ==
    [cat \in Range(categories) |->
        LET key == _normalize_text(cat.s)
        IN  IF key \in DOMAIN important_colors THEN important_colors[key]
            ELSE default_color]

display_map ==
    <<[k |-> <<"c","a","n","c","e","l","a","c","i","o","n">>, display |-> <<"C","a","n","c","e","l","a","c","i","U+00F3","n">>],
      [k |-> <<"o","v","e","r","b","o","o","k","i","n","g">>, display |-> <<"O","v","e","r","b","o","o","k","i","n","g">>],
      [k |-> <<"r","e","t","r","a","s","o">>, display |-> <<"R","e","t","r","a","s","o">>],
      [k |-> <<"p","e","r","d","i","d","a"," ","o"," ","d","a","n","o"," ","d","e"," ","m","a","l","e","t","a">>, display |-> <<"P","U+00E9","r","d","i","d","a"," ","o"," ","d","a","U+00F1","o"," ","d","e"," ","m","a","l","e","t","a">>]>>

RECURSIVE sum_reclamos(_)
sum_reclamos(t) == IF t = <<>> THEN 0 ELSE Head(t).reclamos + sum_reclamos(Tail(t))

\* variant: a dict keyed by the normalised category, in which a later category
\* replaces the count of an earlier one with the same key
norm_counts_last(cat_counts) ==
    LET ks == {_normalize_text(cat_counts[j].key.s) : j \in 1..Len(cat_counts)}
    IN  [k \in ks |->
            LET same == SelectSeq(cat_counts, LAMBDA row : _normalize_text(row.key.s) = k)
            IN  same[Len(same)].reclamos]

\* cat_counts.assign(_k=cat_counts["categoria"].map(_normalize_text))
\*     .groupby("_k")["reclamos"].sum()
norm_counts(cat_counts) ==
    LET ks == {_normalize_text(cat_counts[j].key.s) : j \in 1..Len(cat_counts)}
    IN  [k \in ks |->
            sum_reclamos(SelectSeq(cat_counts,
                                   LAMBDA row : _normalize_text(row.key.s) = k))]

\* the "Categorias destacadas" lines: for k, display in display_map.items():
\*     if k in norm_counts.index
highlighted(cat_counts) ==
    LET nc == norm_counts(cat_counts)
        hit == SelectSeq(display_map, LAMBDA e : e.k \in DOMAIN nc)
    IN  [j \in 1..Len(hit) |->
            [k |-> hit[j].k, display |-> hit[j].display, reclamos |-> nc[hit[j].k]]]

-----------------------------------------------------------------------------
(* The script body: table and export *)

cols_order(v) ==
    SelectSeq(<<<<"n","i","d">>, <<"f","e","c","h","a">>, <<"a","e","r","o","l","i","n","e","a">>, <<"c","a","t","e","g","o","r","i","a">>,
                <<"o","r","i","g","e","n">>, <<"d","e","s","t","i","n","o">>, <<"t","i","t","u","l","o">>, <<"u","r","l">>>>,
              LAMBDA c : c \in v.cols)

\* table_df.sort_values(by=["fecha"], ascending=False): latest first, NaT last,
\* equal dates in their order
RECURSIVE sort_fecha_desc(_)
sort_fecha_desc(rows) ==
    LET dated == {i \in 1..Len(rows) : ~isna(rows[i][<<"f","e","c","h","a">>])}
    IN  IF rows = <<>> THEN <<>>
        ELSE IF dated = {} THEN rows
        ELSE LET stamp(i) == rows[i][<<"f","e","c","h","a">>].day * 24 + rows[i][<<"f","e","c","h","a">>].hour
                 mx == Max({stamp(i) : i \in dated})
                 j == Min({i \in dated : stamp(i) = mx})
             IN  <<rows[j]>> \o sort_fecha_desc(without(rows, j))

table_df(v) ==
    LET order == cols_order(v)
        cols == IF order # <<>> THEN Range(order) ELSE v.cols
        rows == [i \in 1..Len(v.rows) |-> [c \in cols |-> v.rows[i][c]]]
    IN  [cols |-> cols, order |-> order,
         rows |-> IF <<"f","e","c","h","a">> \in cols THEN sort_fecha_desc(rows) ELSE rows]

\* table_df.to_csv(index=False).encode("utf-8-sig"): a byte-order mark, a header
\* line and one line per row of the table
to_csv(t) == [bom |-> TRUE, header |-> t.order, lines |-> Len(t.rows)]

-----------------------------------------------------------------------------
(* One execution of the script body *)

\* the columns the run reads without testing that they exist
columns_read(r) ==
    {<<"a","e","r","o","l","i","n","e","a">>, <<"c","a","t","e","g","o","r","i","a">>} \cup (IF rango_active(r) THEN {<<"f","e","c","h","a">>} ELSE {})

\* what a run that stopped on an exception displayed
failed_run == [error |-> TRUE]

\* variant: no copy is taken, the filters and derivations act on df itself
df_after_run_in_place(d, v) == [cols |-> v.cols, rows |-> v.rows, categories |-> d.categories]

\* the canonical frame after a run: df_f = df.copy() and every later
\* assignment goes to df_f, so df keeps its columns and values
df_after_run(d, v) == d

run_view(d, s) == derive(d, filtered_index(d, s, rango_widget(d, s)))

run_out(d, s, v) ==
    IF ~(columns_read(rango_widget(d, s)) \subseteq d.cols) THEN failed_run
    ELSE LET cat_counts == counts_desc(v, <<"c","a","t","e","g","o","r","i","a">>)
             table == table_df(v)
         IN  [error |-> FALSE,
              rango |-> rango_widget(d, s),
              total |-> Len(v.rows),
              cat_counts |-> cat_counts,
              custom_colors |-> IF cat_counts.shown
                                THEN get_custom_colors([j \in 1..Len(cat_counts.rows) |->
                                                           cat_counts.rows[j].key])
                                ELSE <<>>,
              air_counts |-> counts_desc(v, <<"a","e","r","o","l","i","n","e","a">>),
              dow_counts |-> dow_counts(v),
              flag_counts |-> flag_counts(v, d),
              dest_counts |-> top_counts(v, <<"d","e","s","t","i","n","o">>, s.top_n),
              orig_counts |-> top_counts(v, <<"o","r","i","g","e","n">>, s.top_n),
              serie |-> serie(v),
              highlighted |-> IF cat_counts.shown THEN shown(highlighted(cat_counts.rows))
                              ELSE absent,
              table |-> table,
              csv |-> to_csv(table)]

-----------------------------------------------------------------------------
(* The spreadsheets the script is run on.  A schema gives the column labels of
   a sheet and, per label, the cells a row may hold; the labels of one sheet
   normalise to different names. *)

schemas ==
    { \* airline, category and date
      (<<" ","A","e","r","o","l","U+00ED","n","e","a"," ">> :> {NaN, Txt(<<"A","e","r","o","X">>)}) @@
      (<<"C","a","t","e","g","o","r","U+00ED","a">> :> {NaN, Txt(<<"R","e","t","r","a","s","o">>)}) @@
      (<<"F","e","c","h","a">> :> {NaN, Ts(738890, 0), Ts(738905, 18)}),
      \* route endpoints, no date column
      (<<"O","r","i","g","e","n">> :> {NaN, Txt(<<"S","C","L">>), Txt(<<" ","n","a","n">>)}) @@
      (<<"D","e","s","t","i","n","o">> :> {NaN, Txt(<<"L","I","M"," ">>)}),
      \* categories that differ in case and accents
      (<<"C","a","t","e","g","o","r","i","a","s">> :> {NaN, Txt(<<"C","a","n","c","e","l","a","c","i","U+00F3","n">>), Txt(<<"c","a","n","c","e","l","a","c","i","o","n">>), Txt(<<"n","a","n"," ">>)}),
      \* both flag columns
      (<<"e","s","_","i","n","t","e","r","n","a","c","i","o","n","a","l">> :> {NaN, Txt(<<" ","S","U+00CD"," ">>), Num(0), Flt(1), Txt(<<"n","a","c","i","o","n","a","l">>)}) @@
      (<<"T","i","p","o"," ","T","r","a","m","o">> :> {Txt(<<"V","u","e","l","o"," ","I","n","t","e","r","n","a","c","i","o","n","a","l">>)}),
      \* the tramo column alone
      (<<"t","r","a","m","o">> :> {NaN, Txt(<<"I","n","t","e","r","n","a","c","i","o","n","a","l">>), Txt(<<"V","u","e","l","o"," ","n","a","c","i","o","n","a","l">>),
                    Txt(<<"N","A","C">>), Txt(<<"i","n","t","e","r">>), Txt(<<"c","h","a","r","t","e","r">>)}),
      \* none of the core columns
      (<<"C","o","m","e","n","t","a","r","i","o">> :> {Txt(<<"x">>)}) }

\* the rows a schema allows
rows_of(sch) ==
    {r \in [DOMAIN sch -> UNION {sch[c] : c \in DOMAIN sch}] :
        \A c \in DOMAIN sch : r[c] \in sch[c]}

sheets ==
    UNION { { [cols |-> DOMAIN sch, rows |-> rows] :
                rows \in UNION { [1..n -> rows_of(sch)] : n \in 0..MaxRows } }
            : sch \in schemas }

no_frame == [cols |-> {}, rows |-> <<>>]

defaults == [aerolinea_sel |-> {}, categoria_sel |-> {}, rango |-> unset,
             top_n |-> top_n_default]

\* what a date_input over Days can return: the start alone while the range is
\* being picked, then (start, end) with start <= end
rango_choices ==
    {<<Min(Days)>>} \cup {t \in Days \X Days : t[1] <= t[2]}

-----------------------------------------------------------------------------
(* Actions: the first run, and one rerun per widget interaction *)

Rerun(s) ==
    LET v == run_view(df, s)
    IN  /\ sel' = s
        /\ df_f' = v
        /\ out' = run_out(df, s, v)
        /\ df' = df_after_run(df, v)
        /\ UNCHANGED <<pc, raw, name, once, twice>>

\* the script runs for the first time: load_df(data_bytes), every widget at its default
Start ==
    /\ pc = "idle"
    /\ pc' = "ran"
    /\ LET d == load_df(raw)
           v == run_view(d, sel)
       IN  /\ df_f' = v
           /\ out' = run_out(d, sel, v)
           /\ df' = df_after_run(d, v)
    /\ UNCHANGED <<raw, sel, name, once, twice>>

SelectAerolinea ==
    /\ pc = "ran"
    /\ \E chosen_set \in SUBSET options(df, <<"a","e","r","o","l","i","n","e","a">>) :
           Rerun([sel EXCEPT !.aerolinea_sel = chosen_set])

SelectCategoria ==
    /\ pc = "ran"
    /\ \E chosen_set \in SUBSET options(df, <<"c","a","t","e","g","o","r","i","a">>) :
           Rerun([sel EXCEPT !.categoria_sel = chosen_set])

\* the date_input exists only when rango is not None
SelectRango ==
    /\ pc = "ran"
    /\ ~rango_widget(df, sel).none
    /\ \E t \in rango_choices : Rerun([sel EXCEPT !.rango = chosen(t)])

SelectTopN ==
    /\ pc = "ran"
    /\ \E n \in {top_n_min, top_n_default} : Rerun([sel EXCEPT !.top_n = n])

\* "Limpiar filtros": the four keys are deleted from st.session_state, then st.rerun()
ClearFilters ==
    /\ pc = "ran"
    /\ Rerun(defaults)

Init ==
    /\ pc = "idle"
    /\ raw \in sheets
    /\ df = no_frame
    /\ sel = defaults
    /\ df_f = no_frame
    /\ out = [error |-> FALSE]
    /\ name = <<>>
    /\ once = <<>>
    /\ twice = <<>>

Next ==
    \/ Start
    \/ SelectAerolinea
    \/ SelectCategoria
    \/ SelectRango
    \/ SelectTopN
    \/ ClearFilters

Spec == Init /\ [][Next]_vars

-----------------------------------------------------------------------------
(* Column labels through _normalize_colname, once and again *)

label_chars == {"a", "S", " ", "_", "U+00ED", "U+2122"}

labels ==
    UNION { [1..n -> label_chars] : n \in 0..MaxLabelLen }
    \cup DOMAIN synonyms
    \cup UNION { DOMAIN sch : sch \in schemas }

NormalizeOnce ==
    /\ pc = "norm0"
    /\ pc' = "norm1"
    /\ once' = _normalize_colname(name)
    /\ UNCHANGED <<raw, df, sel, df_f, out, name, twice>>

NormalizeAgain ==
    /\ pc = "norm1"
    /\ pc' = "norm2"
    /\ twice' = _normalize_colname(once)
    /\ UNCHANGED <<raw, df, sel, df_f, out, name, once>>

InitNorm ==
    /\ pc = "norm0"
    /\ name \in labels
    /\ once = <<>>
    /\ twice = <<>>
    /\ raw = no_frame
    /\ df = no_frame
    /\ sel = defaults
    /\ df_f = no_frame
    /\ out = [error |-> FALSE]

NextNorm == NormalizeOnce \/ NormalizeAgain

SpecNorm == InitNorm /\ [][NextNorm]_vars

-----------------------------------------------------------------------------
(* Properties *)

ran == pc = "ran" /\ ~out.error

\* the rows of the canonical frame that are in the derived view
in_view == Range(df_f.index)

is_pair(r) == ~r.none /\ Len(r.t) = 2

\* C1: a row is in the filtered view if and only if (the airline set is empty
\* or holds the row's airline) and (the category set is empty or holds the
\* row's category) and (no date interval is active or the row's date lies in
\* the closed interval); a row with a missing date is out whenever a date
\* interval is active.
C1_FilterIsConjunction ==
    ran =>
        \A i \in 1..Len(df.rows) :
            LET r == df.rows[i]
                f == get(r, <<"f","e","c","h","a">>)
            IN  /\ i \in in_view <=>
                     /\ sel.aerolinea_sel = {} \/ r[<<"a","e","r","o","l","i","n","e","a">>] \in sel.aerolinea_sel
                     /\ sel.categoria_sel = {} \/ r[<<"c","a","t","e","g","o","r","i","a">>] \in sel.categoria_sel
                     /\ \/ ~is_pair(out.rango)
                        \/ /\ f.k = "ts"
                           /\ out.rango.t[1] <= f.day
                           /\ f.day <= out.rango.t[2]
                /\ (is_pair(out.rango) /\ f.k # "ts") => i \notin in_view

\* all three filters are set; a dated row on the last day of the interval, past
\* midnight, is in the view, and a row without date is out
C1_Witness ==
    /\ ran
    /\ sel.aerolinea_sel # {}
    /\ sel.categoria_sel # {}
    /\ is_pair(out.rango)
    /\ \E i \in in_view : /\ df.rows[i][<<"f","e","c","h","a">>].day = out.rango.t[2]
                          /\ df.rows[i][<<"f","e","c","h","a">>].hour > 0
    /\ \E i \in 1..Len(df.rows) : isna(df.rows[i][<<"f","e","c","h","a">>]) /\ i \notin in_view

\* the columns the spreadsheet supplied, by canonical name
supplied == {_normalize_colname(c) : c \in raw.cols}

all_missing(c) == \A i \in 1..Len(df.rows) : df.rows[i][c] = NaN

\* C2, as stated: after load_df all eight core columns exist, an omitted one
\* filled with the missing marker.
C2_EightCoreColumns ==
    pc = "ran" =>
        \A c \in {<<"n","i","d">>, <<"f","e","c","h","a">>, <<"c","a","t","e","g","o","r","i","a">>, <<"a","e","r","o","l","i","n","e","a">>,
                  <<"o","r","i","g","e","n">>, <<"d","e","s","t","i","n","o">>, <<"t","i","t","u","l","o">>, <<"u","r","l">>} :
            c \in df.cols /\ (c \notin supplied => all_missing(c))

\* C2, amended: after load_df the seven core columns other than fecha exist, an
\* omitted one filled with the missing marker; fecha exists exactly when the
\* spreadsheet supplied it.
C2_SevenCoreColumns ==
    pc = "ran" =>
        /\ \A c \in {<<"n","i","d">>, <<"c","a","t","e","g","o","r","i","a">>, <<"a","e","r","o","l","i","n","e","a">>,
                     <<"o","r","i","g","e","n">>, <<"d","e","s","t","i","n","o">>, <<"t","i","t","u","l","o">>, <<"u","r","l">>} :
               c \in df.cols /\ (c \notin supplied => all_missing(c))
        /\ <<"f","e","c","h","a">> \in df.cols <=> <<"f","e","c","h","a">> \in supplied

\* a loaded sheet with rows that supplied neither fecha nor nid
C2_Witness ==
    /\ pc = "ran"
    /\ df.rows # <<>>
    /\ <<"f","e","c","h","a">> \notin supplied
    /\ <<"n","i","d">> \notin supplied
    /\ <<"n","i","d">> \in df.cols
    /\ all_missing(<<"n","i","d">>)

derived_names == {<<"_","i","n","t","e","r","n","a","c","i","o","n","a","l","_","b","o","o","l">>, <<"i","n","t","e","r","n","a","c","i","o","n","a","l","_","f","l","a","g">>, <<"d","i","a","_","s","e","m","a","n","a">>, <<"a","n","i","o","_","m","e","s">>}

\* C3: after any sequence of filter changes the canonical record set is the
\* one load_df built, and the derived columns are in the derived view only.
C3_CanonicalUnchanged ==
    pc = "ran" =>
        /\ df = load_df(raw)
        /\ df.cols \cap derived_names = {}
        /\ df_f.cols \ df.cols \subseteq derived_names

\* filters changed, rows filtered out, derived date columns in the view
C3_Witness ==
    /\ ran
    /\ sel.aerolinea_sel # {}
    /\ sel.rango.set
    /\ sel.top_n # top_n_default
    /\ Len(df_f.rows) < Len(df.rows)
    /\ df_f.rows # <<>>
    /\ {<<"d","i","a","_","s","e","m","a","n","a">>, <<"a","n","i","o","_","m","e","s">>} \subseteq df_f.cols

\* C4: _normalize_colname(_normalize_colname(x)) = _normalize_colname(x) for
\* every column label x, and every value of the synonym table maps to itself.
C4_Idempotent ==
    /\ pc = "norm2" => twice = once
    /\ \A k \in DOMAIN synonyms : _normalize_colname(synonyms[k]) = synonyms[k]

calendar_week == <<<<"L","u","n","e","s">>, <<"M","a","r","t","e","s">>, <<"M","i","U+00E9","r","c","o","l","e","s">>, <<"J","u","e","v","e","s">>,
                   <<"V","i","e","r","n","e","s">>, <<"S","U+00E1","b","a","d","o">>, <<"D","o","m","i","n","g","o">>>>

\* C5: the weekday summary lists its rows in the order Lunes, Martes,
\* Miercoles, Jueves, Viernes, Sabado, Domingo.
C5_WeekdayCalendarOrder ==
    (ran /\ out.dow_counts.shown) =>
        LET t == out.dow_counts.rows
        IN  \A j, k \in 1..Len(t) :
                j < k => IndexOf(calendar_week, t[j].key.s) < IndexOf(calendar_week, t[k].key.s)

\* the rows of the view whose value in column c is not missing
keyed(c) == {i \in 1..Len(df_f.rows) : ~isna(df_f.rows[i][c])}

\* C6: the counts of each grouped summary (by category, by airline, by
\* destination and by origin when the top N cuts nothing) add up to the number
\* of filtered rows whose key is not missing.
C6_CountsAddUp ==
    ran =>
        /\ out.cat_counts.shown =>
               sum_reclamos(out.cat_counts.rows) = Cardinality(keyed(<<"c","a","t","e","g","o","r","i","a">>))
        /\ out.air_counts.shown =>
               sum_reclamos(out.air_counts.rows) = Cardinality(keyed(<<"a","e","r","o","l","i","n","e","a">>))
        /\ (out.dest_counts.shown /\ Len(out.dest_counts.rows) < sel.top_n) =>
               sum_reclamos(out.dest_counts.rows) = Cardinality(keyed(<<"d","e","s","t","i","n","o">>))
        /\ (out.orig_counts.shown /\ Len(out.orig_counts.rows) < sel.top_n) =>
               sum_reclamos(out.orig_counts.rows) = Cardinality(keyed(<<"o","r","i","g","e","n">>))

\* a filter is set, and of the two filtered rows one has no category
C6_Witness ==
    /\ ran
    /\ sel.aerolinea_sel # {}
    /\ out.cat_counts.shown
    /\ Len(df_f.rows) = 2
    /\ Cardinality(keyed(<<"c","a","t","e","g","o","r","i","a">>)) = 1
    /\ sum_reclamos(out.cat_counts.rows) = 1

\* C7: after loading no value of categoria, aerolinea, origen or destino is the
\* text "nan".
C7_NoNanText ==
    pc = "ran" =>
        \A i \in 1..Len(df.rows) :
            \A c \in {<<"c","a","t","e","g","o","r","i","a">>, <<"a","e","r","o","l","i","n","e","a">>, <<"o","r","i","g","e","n">>, <<"d","e","s","t","i","n","o">>} :
                df.rows[i][c] # Txt(<<"n","a","n">>)

\* the flag the claim gives a row of the canonical frame
C8_flag(r) ==
    LET text(x) == lower(strip(str(x)))
    IN  IF <<"i","n","t","e","r","n","a","c","i","o","n","a","l">> \in DOMAIN r
        THEN LET x == r[<<"i","n","t","e","r","n","a","c","i","o","n","a","l">>]
             IN  IF isna(x) THEN NaN
                 ELSE IF text(x) \in {<<"1">>, <<"t","r","u","e">>, <<"t">>, <<"s","i">>, <<"s","U+00ED">>, <<"i","n","t","e","r","n","a","c","i","o","n","a","l">>, <<"i","n","t">>}
                 THEN Txt(<<"I","n","t","e","r","n","a","c","i","o","n","a","l">>)
                 ELSE IF text(x) \in {<<"0">>, <<"f","a","l","s","e">>, <<"f">>, <<"n","o">>, <<"n","a","c","i","o","n","a","l">>, <<"n","a","c">>}
                 THEN Txt(<<"N","a","c","i","o","n","a","l">>)
                 ELSE NaN
        ELSE LET x == r[<<"t","r","a","m","o">>]
             IN  IF isna(x) THEN NaN
                 ELSE IF contains(text(x), <<"i","n","t","e","r","n","a","c","i","o","n","a","l">>) \/ text(x) \in {<<"i","n","t","e","r">>, <<"i","n","t">>}
                 THEN Txt(<<"I","n","t","e","r","n","a","c","i","o","n","a","l">>)
                 ELSE IF contains(text(x), <<"n","a","c","i","o","n","a","l">>) \/ text(x) = <<"n","a","c">>
                 THEN Txt(<<"N","a","c","i","o","n","a","l">>)
                 ELSE NaN

\* C8: with an 'internacional' column the flag comes from it alone (truthy
\* token: Internacional, falsy token: Nacional, missing or unrecognized:
\* missing); otherwise with a 'tramo' column it is Internacional for a value
\* containing "internacional" or abbreviating it, else Nacional for a value
\* containing "nacional" or abbreviating it, else missing; with neither column
\* the view has no flag and the summary is unavailable.
C8_FlagDerivation ==
    ran =>
        IF {<<"i","n","t","e","r","n","a","c","i","o","n","a","l">>, <<"t","r","a","m","o">>} \cap df.cols = {}
        THEN <<"i","n","t","e","r","n","a","c","i","o","n","a","l","_","f","l","a","g">> \notin df_f.cols /\ ~out.flag_counts.shown
        ELSE \A i \in 1..Len(df_f.rows) :
                 df_f.rows[i][<<"i","n","t","e","r","n","a","c","i","o","n","a","l","_","f","l","a","g">>] = C8_flag(df.rows[df_f.index[i]])

\* both columns exist, every tramo says international, and the flag follows
\* the internacional column: Internacional, Nacional and missing all occur
C8_Witness ==
    /\ ran
    /\ {<<"i","n","t","e","r","n","a","c","i","o","n","a","l">>, <<"t","r","a","m","o">>} \subseteq df.cols
    /\ \E i \in 1..Len(df_f.rows) :
           /\ df_f.rows[i][<<"t","r","a","m","o">>] = Txt(<<"V","u","e","l","o"," ","I","n","t","e","r","n","a","c","i","o","n","a","l">>)
           /\ df_f.rows[i][<<"i","n","t","e","r","n","a","c","i","o","n","a","l">>] = Num(0)
           /\ df_f.rows[i][<<"i","n","t","e","r","n","a","c","i","o","n","a","l","_","f","l","a","g">>] = Txt(<<"N","a","c","i","o","n","a","l">>)
    /\ \E i \in 1..Len(df_f.rows) :
           /\ df_f.rows[i][<<"i","n","t","e","r","n","a","c","i","o","n","a","l">>] = Flt(1)
           /\ df_f.rows[i][<<"i","n","t","e","r","n","a","c","i","o","n","a","l","_","f","l","a","g">>] = NaN

\* C9: without a fecha column nothing raises: no date filter is applied, the
\* weekday and monthly summaries are omitted, and the other summaries, the
\* table and the export are produced from the filtered rows.
C9_NoFechaNoError ==
    (pc = "ran" /\ <<"f","e","c","h","a">> \notin supplied) =>
        /\ ~out.error
        /\ out.rango.none
        /\ in_view = {i \in 1..Len(df.rows) :
                         /\ sel.aerolinea_sel = {} \/ df.rows[i][<<"a","e","r","o","l","i","n","e","a">>] \in sel.aerolinea_sel
                         /\ sel.categoria_sel = {} \/ df.rows[i][<<"c","a","t","e","g","o","r","i","a">>] \in sel.categoria_sel}
        /\ ~out.dow_counts.shown
        /\ ~out.serie.shown
        /\ out.total = Len(df_f.rows)
        /\ out.cat_counts.shown <=> keyed(<<"c","a","t","e","g","o","r","i","a">>) # {}
        /\ out.air_counts.shown <=> keyed(<<"a","e","r","o","l","i","n","e","a">>) # {}
        /\ out.dest_counts.shown <=> keyed(<<"d","e","s","t","i","n","o">>) # {}
        /\ out.orig_counts.shown <=> keyed(<<"o","r","i","g","e","n">>) # {}
        /\ Len(out.table.rows) = Len(df_f.rows)
        /\ <<"f","e","c","h","a">> \notin out.table.cols
        /\ out.csv.lines = Len(df_f.rows)

\* a sheet without fecha, with rows, whose route summaries are shown
C9_Witness ==
    /\ pc = "ran"
    /\ <<"f","e","c","h","a">> \notin supplied
    /\ ~out.error
    /\ df_f.rows # <<>>
    /\ out.dest_counts.shown
    /\ out.orig_counts.shown
    /\ out.csv.lines = 2

\* the filtered rows whose category, normalised for case and accents, is k
normalised_as(k) ==
    {i \in keyed(<<"c","a","t","e","g","o","r","i","a">>) : _normalize_text(df_f.rows[i][<<"c","a","t","e","g","o","r","i","a">>].s) = k}

\* C10: for each recognised key the highlighted count is the number of filtered
\* rows whose category, normalised for case and accents, equals the key; the
\* highlighting leaves the filtered view and the category summary as they are.
C10_HighlightedCounts ==
    (ran /\ out.cat_counts.shown) =>
        /\ out.highlighted.shown
        /\ \A j \in 1..Len(out.highlighted.rows) :
               LET e == out.highlighted.rows[j]
               IN  e.reclamos = Cardinality(normalised_as(e.k))
        /\ \A j \in 1..Len(display_map) :
               normalised_as(display_map[j].k) # {} =>
                   \E n \in 1..Len(out.highlighted.rows) :
                       out.highlighted.rows[n].k = display_map[j].k
        /\ \A j \in 1..Len(out.cat_counts.rows) :
               LET row == out.cat_counts.rows[j]
               IN  row.reclamos =
                       Cardinality({i \in keyed(<<"c","a","t","e","g","o","r","i","a">>) :
                                       df_f.rows[i][<<"c","a","t","e","g","o","r","i","a">>] = row.key})

\* "Cancelacion" with and without accent, one row each, reported as 2
C10_Witness ==
    /\ ran
    /\ out.highlighted.shown
    /\ \E i, j \in 1..Len(df_f.rows) :
           /\ df_f.rows[i][<<"c","a","t","e","g","o","r","i","a">>] = Txt(<<"C","a","n","c","e","l","a","c","i","U+00F3","n">>)
           /\ df_f.rows[j][<<"c","a","t","e","g","o","r","i","a">>] = Txt(<<"c","a","n","c","e","l","a","c","i","o","n">>)
    /\ \E n \in 1..Len(out.highlighted.rows) :
           /\ out.highlighted.rows[n].k = <<"c","a","n","c","e","l","a","c","i","o","n">>
           /\ out.highlighted.rows[n].reclamos = 2

=============================================================================
